---- MODULE Spec2Model ----
(***************************************************************************)
(* A model of tinycss2/ast.py: the node classes of the CSS syntax tree,    *)
(* their constructors, their serialization and LiteralToken's equality.    *)
(*                                                                         *)
(* A Python str is a sequence of characters; a character is a TLA+ string  *)
(* that holds the character itself, or, for the code points that are not   *)
(* written here literally, its name ("U+00C9", "U+D800").  A call's        *)
(* outcome is a record: exc is the exception raised ("" when the call      *)
(* returned), out the text returned (for a raising serialization, the      *)
(* chunks written before the raise).                                       *)
(***************************************************************************)
EXTENDS Integers, Sequences, FiniteSets, TLC

VARIABLES node, ret

vars == <<node, ret>>

\* ---------------------------------------------------------------- bounds

\* The deepest tree that is built (a leaf has depth 1).
MaxDepth == 3

\* ------------------------------------------------------------ characters

UpperChars == <<"A", "B", "C", "D", "E", "F", "G", "H", "I", "J", "K", "L", "M",
                "N", "O", "P", "Q", "R", "S", "T", "U", "V", "W", "X", "Y", "Z">>

LowerChars == <<"a", "b", "c", "d", "e", "f", "g", "h", "i", "j", "k", "l", "m",
                "n", "o", "p", "q", "r", "s", "t", "u", "v", "w", "x", "y", "z">>

DigitChars == <<"0", "1", "2", "3", "4", "5", "6", "7", "8", "9">>

Range(s) == {s[i] : i \in DOMAIN s}

IndexOf(s, c) == CHOOSE i \in DOMAIN s : s[i] = c

\* Characters above U+007F: a letter with an accent, and a lone surrogate,
\* which a Python str can hold and UTF-8 cannot encode.
NonAsciiChars == {"U+00C9", "U+D800"}

SurrogateChars == {"U+D800"}

\* str.startswith(prefix)
StartsWith(s, prefix) ==
    /\ Len(s) >= Len(prefix)
    /\ SubSeq(s, 1, Len(prefix)) = prefix

\* Python's `a in b` for two str: a is a substring of b ('' is one of any b).
StrIn(a, b) ==
    \E i \in 1..(Len(b) + 1) :
        /\ i + Len(a) - 1 <= Len(b)
        /\ SubSeq(b, i, i + Len(a) - 1) = a

\* Python's s[1:]
Rest(s) == SubSeq(s, 2, Len(s))

RECURSIVE Concat(_)
\* ''.join(chunks)
Concat(chunks) ==
    IF chunks = <<>> THEN <<>> ELSE Head(chunks) \o Concat(Tail(chunks))

\* ------------------------------------------------------ call outcomes

Returned(text) == [exc |-> "", out |-> text]

Raised(e, written) == [exc |-> e, out |-> written]

\* Runs b after a on the same write callback: an exception of a ends the
\* run with what a wrote, otherwise b's chunks follow a's.
Then(a, b) ==
    IF a.exc # "" THEN a ELSE [exc |-> b.exc, out |-> a.out \o b.out]

\* Optional values: Python's None, and a present value.
None == <<>>

Some(v) == <<v>>

ValueOf(option) == option[1]

\* -------------------------------------------------- webencodings.ascii_lower

\* bytes.lower() on the UTF-8 encoding: only A-Z change.
LowerChar(c) ==
    IF c \in Range(UpperChars) THEN LowerChars[IndexOf(UpperChars, c)] ELSE c

\* ascii_lower(string) is string.encode('utf8').lower().decode('utf8'):
\* the encoding raises UnicodeEncodeError on a lone surrogate.
ascii_lower(string) ==
    IF \E i \in DOMAIN string : string[i] \in SurrogateChars
    THEN [exc |-> "UnicodeEncodeError", out |-> <<>>]
    ELSE [exc |-> "", out |-> [i \in DOMAIN string |-> LowerChar(string[i])]]

\* ------------------------------------------------- serializer (names)

NameChars == Range(LowerChars) \cup Range(UpperChars) \cup Range(DigitChars)
             \cup {"-", "_"} \cup NonAsciiChars

IdentStartChars == Range(LowerChars) \cup Range(UpperChars) \cup {"_"}
                   \cup NonAsciiChars

\* One character of a name: name characters as they are, a newline as a
\* hexadecimal escape, anything else behind a backslash.
serialize_name_char(c) ==
    IF c \in NameChars THEN <<c>>
    ELSE IF c = "\n" THEN <<"\\", "A", " ">>
    ELSE <<"\\", c>>

RECURSIVE serialize_name(_)
\* The relaxed "name" escaping.
serialize_name(value) ==
    IF value = <<>> THEN <<>>
    ELSE serialize_name_char(Head(value)) \o serialize_name(Tail(value))

\* The first character of an identifier (after an optional "-"): a digit
\* cannot start an identifier and is written as a hexadecimal escape of
\* its code point (U+0030 to U+0039).
serialize_identifier_start(c) ==
    IF c \in IdentStartChars THEN <<c>>
    ELSE IF c = "\n" THEN <<"\\", "A", " ">>
    ELSE IF c \in Range(DigitChars) THEN <<"\\", "3", c, " ">>
    ELSE <<"\\", c>>

\* The identifier escaping, for a non-empty value.
serialize_identifier(value) ==
    IF value = <<>> THEN <<>>
    ELSE IF value = <<"-">> THEN <<"\\", "-">>
    ELSE IF StartsWith(value, <<"-", "-">>)
         THEN <<"-", "-">> \o serialize_name(SubSeq(value, 3, Len(value)))
    ELSE IF Head(value) = "-"
         THEN <<"-">> \o serialize_identifier_start(value[2])
                      \o serialize_name(SubSeq(value, 3, Len(value)))
    ELSE serialize_identifier_start(Head(value)) \o serialize_name(Tail(value))

\* ------------------------------------------------------------- nodes

\* A constructor call's outcome: the object, or the exception raised.
Built(obj) == [exc |-> "", obj |-> obj]

Failed(e) == [exc |-> e, obj |-> None]

ParseError(line, column, kind, message) ==
    Built([type |-> "error", source_line |-> line, source_column |-> column,
           kind |-> kind, message |-> message])

Comment(line, column, value) ==
    Built([type |-> "comment", source_line |-> line, source_column |-> column,
           value |-> value])

WhitespaceToken(line, column, value) ==
    Built([type |-> "whitespace", source_line |-> line,
           source_column |-> column, value |-> value])

LiteralToken(line, column, value) ==
    Built([type |-> "literal", source_line |-> line, source_column |-> column,
           value |-> value])

\* try: ascii_lower(value) / except UnicodeEncodeError: value
LowerOrSame(value) ==
    IF ascii_lower(value).exc = "UnicodeEncodeError" THEN value
    ELSE ascii_lower(value).out

IdentToken(line, column, value) ==
    Built([type |-> "ident", source_line |-> line, source_column |-> column,
           value |-> value, lower_value |-> LowerOrSame(value)])

AtKeywordToken(line, column, value) ==
    Built([type |-> "at-keyword", source_line |-> line,
           source_column |-> column,
           value |-> value, lower_value |-> LowerOrSame(value)])

HashToken(line, column, value, is_identifier) ==
    Built([type |-> "hash", source_line |-> line, source_column |-> column,
           value |-> value, is_identifier |-> is_identifier])

StringToken(line, column, value, representation) ==
    Built([type |-> "string", source_line |-> line, source_column |-> column,
           value |-> value, representation |-> representation])

URLToken(line, column, value, representation) ==
    Built([type |-> "url", source_line |-> line, source_column |-> column,
           value |-> value, representation |-> representation])

\* is_integer taken from the float (value.is_integer()) instead of from
\* the presence of int_value.
Mutant_NumberToken(line, column, value, int_value, representation) ==
    Built([type |-> "number", source_line |-> line, source_column |-> column,
           value |-> value, int_value |-> int_value,
           is_integer |-> (value[2] = 1),
           representation |-> representation])

NumberToken(line, column, value, int_value, representation) ==
    Built([type |-> "number", source_line |-> line, source_column |-> column,
           value |-> value, int_value |-> int_value,
           is_integer |-> (int_value # None),
           representation |-> representation])

PercentageToken(line, column, value, int_value, representation) ==
    Built([type |-> "percentage", source_line |-> line,
           source_column |-> column,
           value |-> value, int_value |-> int_value,
           is_integer |-> (int_value # None),
           representation |-> representation])

\* ascii_lower(unit) is not guarded here: its exception leaves __init__.
DimensionToken(line, column, value, int_value, representation, unit) ==
    IF ascii_lower(unit).exc # "" THEN Failed(ascii_lower(unit).exc)
    ELSE Built([type |-> "dimension", source_line |-> line,
                source_column |-> column,
                value |-> value, int_value |-> int_value,
                is_integer |-> (int_value # None),
                representation |-> representation,
                unit |-> unit, lower_unit |-> ascii_lower(unit).out])

ParenthesesBlock(line, column, content) ==
    Built([type |-> "() block", source_line |-> line,
           source_column |-> column, content |-> content])

SquareBracketsBlock(line, column, content) ==
    Built([type |-> "[] block", source_line |-> line,
           source_column |-> column, content |-> content])

CurlyBracketsBlock(line, column, content) ==
    Built([type |-> "{} block", source_line |-> line,
           source_column |-> column, content |-> content])

\* ascii_lower(name) is not guarded here either.
FunctionBlock(line, column, name, arguments) ==
    IF ascii_lower(name).exc # "" THEN Failed(ascii_lower(name).exc)
    ELSE Built([type |-> "function", source_line |-> line,
                source_column |-> column,
                name |-> name, lower_name |-> ascii_lower(name).out,
                arguments |-> arguments])

Declaration(line, column, name, lower_name, value, important) ==
    Built([type |-> "declaration", source_line |-> line,
           source_column |-> column,
           name |-> name, lower_name |-> lower_name, value |-> value,
           important |-> important])

QualifiedRule(line, column, prelude, content) ==
    Built([type |-> "qualified-rule", source_line |-> line,
           source_column |-> column, prelude |-> prelude, content |-> content])

AtRule(line, column, at_keyword, lower_at_keyword, prelude, content) ==
    Built([type |-> "at-rule", source_line |-> line, source_column |-> column,
           at_keyword |-> at_keyword, lower_at_keyword |-> lower_at_keyword,
           prelude |-> prelude, content |-> content])

\* ------------------------------------------------------ fixed texts

EofInString == <<"e", "o", "f", "-", "i", "n", "-", "s", "t", "r", "i", "n", "g">>

EofInUrl == <<"e", "o", "f", "-", "i", "n", "-", "u", "r", "l">>

BadString == <<"b", "a", "d", "-", "s", "t", "r", "i", "n", "g">>

BadUrl == <<"b", "a", "d", "-", "u", "r", "l">>

\* '"[bad string]\n'
BadStringText == <<"\"", "[", "b", "a", "d", " ",
                   "s", "t", "r", "i", "n", "g", "]", "\n">>

\* 'url([bad url])'
BadUrlText == <<"u", "r", "l", "(", "[", "b", "a", "d", " ",
                "u", "r", "l", "]", ")">>

\* ')]}', the string ParseError._serialize_to looks the kind up in
Closers == <<")", "]", "}">>

\* The kinds the parsers give to the errors they return.
EmptyKind == <<"e", "m", "p", "t", "y">>

ExtraInputKind == <<"e", "x", "t", "r", "a", "-", "i", "n", "p", "u", "t">>

InvalidKind == <<"i", "n", "v", "a", "l", "i", "d">>

EscapedE == <<"\\", "6", "5", " ">>

Important == <<"!", "i", "m", "p", "o", "r", "t", "a", "n", "t">>

\* ------------------------------------------------ serializer (lists)

\* node.type, or node.value for a literal: what the pair table is keyed by.
\* A type is held as a text of one (long) character.
SerializationType(n) == IF n.type # "literal" THEN <<n.type>> ELSE n.value

\* The adjacency hazards of CSS Syntax, Serialization: two neighbours
\* whose texts would re-tokenize as something else.
BAD_PAIRS ==
    { <<<<a>>, <<b>>>> :
        a \in {"ident", "at-keyword", "hash", "dimension", "#", "-", "number"},
        b \in {"ident", "function", "url", "number", "percentage",
               "dimension", "unicode-range"} }
    \cup { <<<<a>>, b>> :
        a \in {"ident", "at-keyword", "hash", "dimension"},
        b \in {<<"-">>, <<"-", "-", ">">>} }
    \cup { <<<<a>>, <<b>>>> :
        a \in {"#", "-", "number", "@"}, b \in {"ident", "function", "url"} }
    \cup { <<<<a>>, <<b>>>> :
        a \in {"unicode-range", ".", "+"},
        b \in {"number", "percentage", "dimension"} }
    \cup { <<<<"@">>, <<b>>>> :
        b \in {"ident", "function", "url", "unicode-range", "-"} }
    \cup { <<<<"unicode-range">>, <<b>>>> : b \in {"ident", "function", "?"} }
    \cup { <<<<a>>, <<"=">>>> : a \in {"$", "*", "^", "~", "|"} }
    \cup { <<<<"ident">>, <<"() block">>>>, <<<<"|">>, <<"|">>>>,
           <<<<"/">>, <<"*">>>> }

\* What is written between the previous node and node n.
Separator(previous_type, n) ==
    IF <<previous_type, SerializationType(n)>> \in BAD_PAIRS
    THEN <<"/", "*", "*", "/">>
    ELSE IF /\ previous_type = <<"\\">>
            /\ ~(n.type = "whitespace" /\ StartsWith(n.value, <<"\n">>))
    THEN <<"\n">>
    ELSE <<>>

RECURSIVE Node_serialize_to(_)
RECURSIVE serialize_from(_, _, _)
\* The loop of serializer._serialize_to from its i-th node on.
serialize_from(nodes, i, previous_type) ==
    IF i > Len(nodes) THEN Returned(<<>>)
    ELSE Then(Returned(Separator(previous_type, nodes[i])),
         Then(Node_serialize_to(nodes[i]),
         Then(Returned(IF nodes[i].type = "declaration" THEN <<";">> ELSE <<>>),
              serialize_from(nodes, i + 1, SerializationType(nodes[i])))))

\* serializer._serialize_to(nodes, write)
serializer_serialize_to(nodes) == serialize_from(nodes, 1, <<"None">>)

\* ------------------------------------------------- _serialize_to methods

ParseError_serialize_to(self) ==
    IF self.kind = BadString THEN Returned(BadStringText)
    ELSE IF self.kind = BadUrl THEN Returned(BadUrlText)
    ELSE IF StrIn(self.kind, Closers) THEN Returned(self.kind)
    ELSE IF self.kind \in {EofInString, EofInUrl} THEN Returned(<<>>)
    ELSE Raised("TypeError", <<>>)

Comment_serialize_to(self) ==
    Returned(<<"/", "*">> \o self.value \o <<"*", "/">>)

WhitespaceToken_serialize_to(self) == Returned(self.value)

LiteralToken_serialize_to(self) == Returned(self.value)

IdentToken_serialize_to(self) == Returned(serialize_identifier(self.value))

AtKeywordToken_serialize_to(self) ==
    Returned(<<"@">> \o serialize_identifier(self.value))

HashToken_serialize_to(self) ==
    Returned(<<"#">> \o (IF self.is_identifier
                         THEN serialize_identifier(self.value)
                         ELSE serialize_name(self.value)))

StringToken_serialize_to(self) == Returned(self.representation)

URLToken_serialize_to(self) == Returned(self.representation)

\* str(int) of a single digit
FormatDigit(i) == <<DigitChars[i + 1]>>

\* An integer written from int_value instead of from the representation.
Mutant_NumberToken_serialize_to(self) ==
    Returned(IF self.int_value # None
             THEN FormatDigit(ValueOf(self.int_value))
             ELSE self.representation)

NumberToken_serialize_to(self) == Returned(self.representation)

PercentageToken_serialize_to(self) == Returned(self.representation \o <<"%">>)

\* The test without its startswith part.
Mutant_LooksLikeExponent(unit) == unit \in {<<"e">>, <<"E">>}

\* unit in ('e', 'E') or unit.startswith(('e-', 'E-'))
LooksLikeExponent(unit) ==
    \/ unit \in {<<"e">>, <<"E">>}
    \/ StartsWith(unit, <<"e", "-">>)
    \/ StartsWith(unit, <<"E", "-">>)

DimensionToken_serialize_to(self) ==
    Returned(self.representation
             \o (IF LooksLikeExponent(self.unit)
                 THEN EscapedE \o serialize_name(Rest(self.unit))
                 ELSE serialize_identifier(self.unit)))

ParenthesesBlock_serialize_to(self) ==
    Then(Returned(<<"(">>),
    Then(serializer_serialize_to(self.content), Returned(<<")">>)))

SquareBracketsBlock_serialize_to(self) ==
    Then(Returned(<<"[">>),
    Then(serializer_serialize_to(self.content), Returned(<<"]">>)))

CurlyBracketsBlock_serialize_to(self) ==
    Then(Returned(<<"{">>),
    Then(serializer_serialize_to(self.content), Returned(<<"}">>)))

RECURSIVE ClosingWalk(_)
\* The while loop of FunctionBlock._serialize_to, entered with a
\* non-empty self.arguments: "return" when it returns before the closing
\* parenthesis, "write" when it falls through to write(')'), "IndexError"
\* when arguments[-1] is taken of an empty list.
ClosingWalk(function) ==
    IF function.type # "function" THEN "write"
    ELSE IF function.arguments = <<>> THEN "IndexError"
    ELSE LET last == function.arguments[Len(function.arguments)]
         IN  IF last.type = "error" /\ last.kind = EofInString THEN "return"
             ELSE ClosingWalk(last)

\* What follows the arguments.
FunctionBlock_close(self) ==
    IF self.arguments = <<>> THEN Returned(<<")">>)
    ELSE IF ClosingWalk(self) = "return" THEN Returned(<<>>)
    ELSE IF ClosingWalk(self) = "IndexError" THEN Raised("IndexError", <<>>)
    ELSE Returned(<<")">>)

FunctionBlock_serialize_to(self) ==
    Then(Returned(serialize_identifier(self.name) \o <<"(">>),
    Then(serializer_serialize_to(self.arguments), FunctionBlock_close(self)))

Declaration_serialize_to(self) ==
    Then(Returned(serialize_identifier(self.name) \o <<":">>),
    Then(serializer_serialize_to(self.value),
         Returned(IF self.important THEN Important ELSE <<>>)))

QualifiedRule_serialize_to(self) ==
    Then(serializer_serialize_to(self.prelude),
    Then(Returned(<<"{">>),
    Then(serializer_serialize_to(self.content), Returned(<<"}">>))))

AtRule_serialize_to(self) ==
    Then(Returned(<<"@">> \o serialize_identifier(self.at_keyword)),
    Then(serializer_serialize_to(self.prelude),
         IF self.content = None THEN Returned(<<";">>)
         ELSE Then(Returned(<<"{">>),
              Then(serializer_serialize_to(ValueOf(self.content)),
                   Returned(<<"}">>)))))

\* node._serialize_to(write): the method of the node's class.
Node_serialize_to(n) ==
    CASE n.type = "error" -> ParseError_serialize_to(n)
      [] n.type = "comment" -> Comment_serialize_to(n)
      [] n.type = "whitespace" -> WhitespaceToken_serialize_to(n)
      [] n.type = "literal" -> LiteralToken_serialize_to(n)
      [] n.type = "ident" -> IdentToken_serialize_to(n)
      [] n.type = "at-keyword" -> AtKeywordToken_serialize_to(n)
      [] n.type = "hash" -> HashToken_serialize_to(n)
      [] n.type = "string" -> StringToken_serialize_to(n)
      [] n.type = "url" -> URLToken_serialize_to(n)
      [] n.type = "number" -> NumberToken_serialize_to(n)
      [] n.type = "percentage" -> PercentageToken_serialize_to(n)
      [] n.type = "dimension" -> DimensionToken_serialize_to(n)
      [] n.type = "() block" -> ParenthesesBlock_serialize_to(n)
      [] n.type = "[] block" -> SquareBracketsBlock_serialize_to(n)
      [] n.type = "{} block" -> CurlyBracketsBlock_serialize_to(n)
      [] n.type = "function" -> FunctionBlock_serialize_to(n)
      [] n.type = "declaration" -> Declaration_serialize_to(n)
      [] n.type = "qualified-rule" -> QualifiedRule_serialize_to(n)
      [] n.type = "at-rule" -> AtRule_serialize_to(n)

\* Node.serialize(): the joined chunks, or the exception of _serialize_to.
Node_serialize(self) ==
    IF Node_serialize_to(self).exc # ""
    THEN Raised(Node_serialize_to(self).exc, <<>>)
    ELSE Returned(Node_serialize_to(self).out)

\* ------------------------------------------------------------ __repr__

\* self.__class__.__name__, one piece of text.
ClassName(self) ==
    CASE self.type = "error" -> "ParseError"
      [] self.type = "comment" -> "Comment"
      [] self.type = "whitespace" -> "WhitespaceToken"
      [] self.type = "literal" -> "LiteralToken"
      [] self.type = "ident" -> "IdentToken"
      [] self.type = "at-keyword" -> "AtKeywordToken"
      [] self.type = "hash" -> "HashToken"
      [] self.type = "string" -> "StringToken"
      [] self.type = "url" -> "URLToken"
      [] self.type = "number" -> "NumberToken"
      [] self.type = "percentage" -> "PercentageToken"
      [] self.type = "dimension" -> "DimensionToken"
      [] self.type = "() block" -> "ParenthesesBlock"
      [] self.type = "[] block" -> "SquareBracketsBlock"
      [] self.type = "{} block" -> "CurlyBracketsBlock"
      [] self.type = "function" -> "FunctionBlock"
      [] self.type = "declaration" -> "Declaration"
      [] self.type = "qualified-rule" -> "QualifiedRule"
      [] self.type = "at-rule" -> "AtRule"

\* The horizontal ellipsis of the formats of the blocks and rules.
Ellipsis == "U+2026"

\* What the repr_format of the class of self holds between the class name
\* and the closing '>', with the attributes it names filled in.
repr_format(self) ==
    CASE self.type = "error" -> <<" ">> \o self.kind
      [] self.type \in {"comment", "literal", "ident"} ->
             <<" ">> \o self.value
      [] self.type = "whitespace" -> <<>>
      [] self.type = "at-keyword" -> <<" ", "@">> \o self.value
      [] self.type = "hash" -> <<" ", "#">> \o self.value
      [] self.type \in {"string", "url", "number"} ->
             <<" ">> \o self.representation
      [] self.type = "percentage" ->
             <<" ">> \o self.representation \o <<"%">>
      [] self.type = "dimension" ->
             <<" ">> \o self.representation \o self.unit
      [] self.type = "() block" -> <<" ", "(", " ", Ellipsis, " ", ")">>
      [] self.type = "[] block" -> <<" ", "[", " ", Ellipsis, " ", "]">>
      [] self.type = "{} block" -> <<" ", "{", " ", Ellipsis, " ", "}">>
      [] self.type = "function" ->
             <<" ">> \o self.name \o <<"(", " ", Ellipsis, " ", ")">>
      [] self.type = "declaration" ->
             <<" ">> \o self.name \o <<":", " ", Ellipsis>>
      [] self.type = "qualified-rule" ->
             <<" ", Ellipsis, " ", "{", " ", Ellipsis, " ", "}">>
      [] self.type = "at-rule" ->
             <<" ", "@">> \o self.at_keyword
             \o <<" ", Ellipsis, " ", "{", " ", Ellipsis, " ", "}">>

\* Node.__repr__(): the format of the class filled in from self.
Node_repr(self) ==
    Returned(<<"<", ClassName(self)>> \o repr_format(self) \o <<">">>)

\* ----------------------------------------------------- LiteralToken ==

\* The operands of a comparison: a str, the token itself, or another
\* object (a node that is not the token).
PyStr(s) == [py |-> "str", s |-> s]

PySelf == [py |-> "self"]

PyNode(n) == [py |-> "node", obj |-> n]

\* self.value == other, for the str self.value: str.__eq__ decides it for
\* a str; for a LiteralToken it returns NotImplemented and Python asks the
\* token's reflected __eq__ (value == s, the identity test being false for
\* a str); for any other object the default comparison is by identity.
StrEqualsOperand(s, other, self) ==
    IF other.py = "str" THEN s = other.s
    ELSE IF other.py = "self" THEN self.value = s
    ELSE IF other.obj.type = "literal" THEN other.obj.value = s
    ELSE FALSE

\* The comparison of an object that does not define __eq__: by identity.
Mutant_LiteralToken_eq(self, other) == other.py = "self"

\* LiteralToken.__eq__: self.value == other or self is other
LiteralToken_eq(self, other) ==
    StrEqualsOperand(self.value, other, self) \/ other.py = "self"

\* LiteralToken.__ne__: not self == other
LiteralToken_ne(self, other) == ~LiteralToken_eq(self, other)

\* s == L and s != L with the str on the left: str.__eq__ / str.__ne__
\* return NotImplemented for a token, and Python calls the token's method.
Reflected_eq(s, self) == LiteralToken_eq(self, PyStr(s))

Reflected_ne(s, self) == LiteralToken_ne(self, PyStr(s))

\* ------------------------------------------------------------ inputs

Positions == {<<1, 1>>}

Kinds == {BadString, BadUrl, EofInString, EofInUrl,
          <<")">>, <<"]">>, <<"}">>,
          EmptyKind, ExtraInputKind, InvalidKind,
          <<>>, <<")", "]">>, Closers}

Messages == {"message"}

LiteralValues == {<<";">>, <<",">>, <<"/">>, <<"*">>, <<"-", "-", ">">>}

Texts == {<<"x">>, <<>>}

IdentValues == {<<"r", "e", "d">>, <<"R", "e", "D">>, <<"U+00C9", "X">>,
                <<"A", "U+D800">>, <<"-", "x">>, <<"1", "a">>}

FunctionNames == {<<"R", "g", "b">>, <<"A", "U+D800">>}

Units == {<<"e">>, <<"E">>, <<"e", "-">>, <<"E", "-", "x">>, <<"e", "m">>,
          <<"-", "e">>, <<"E", "x">>, <<"E", "U+D800">>}

\* The numeric arguments (value, int_value, representation) given to a
\* numeric token; a float is a fraction <<numerator, denominator>>.  The
\* tokenizer gives the first three; the constructors take the others too.
Numerics == {<<<<1, 1>>, Some(1), <<"+", "1">>>>,
             <<<<3, 2>>, None, <<"1", ".", "5">>>>,
             <<<<1, 1>>, None, <<"1", ".", "0">>>>,
             <<<<3, 2>>, Some(1), <<"1">>>>,
             <<<<3, 2>>, Some(2), <<"1">>>>}

DimensionNumerics == {<<<<1, 1>>, Some(1), <<"1">>>>,
                      <<<<3, 2>>, Some(1), <<"1">>>>}

StringValues == {<<"a">>}

StringRepresentations == {<<"\"", "a", "\"">>, <<"'", "\\", "6", "1", "'">>}

UrlRepresentations == {<<"u", "r", "l", "(", "a", ")">>,
                       <<"U", "R", "L", "(", " ", "a", " ", ")">>}

AtKeywords == {<<"m", "e", "d", "i", "a">>, <<"I", "m", "p", "o", "r", "t">>,
               <<"A", "U+D800">>}

RuleKeywords == {<<"M", "e", "d", "i", "a">>}

\* The nodes put beside the current tree in a child list: the literal
\* token of a comma, the ident token of any other text.
FillerValues == {<<",">>, <<"a">>}

Filler(value) ==
    IF value = <<",">> THEN LiteralToken(1, 1, value).obj
    ELSE IdentToken(1, 1, value).obj

\* A component value is a token or a block: anything but a declaration
\* or a rule.
IsComponentValue(n) ==
    n.type \notin {"declaration", "qualified-rule", "at-rule"}

Children(n) ==
    CASE n.type \in {"() block", "[] block", "{} block"} -> n.content
      [] n.type = "function" -> n.arguments
      [] n.type = "declaration" -> n.value
      [] n.type = "qualified-rule" -> n.prelude \o n.content
      [] n.type = "at-rule" ->
            n.prelude \o (IF n.content = None THEN <<>> ELSE ValueOf(n.content))
      [] OTHER -> <<>>

Max(S) == CHOOSE x \in S : \A y \in S : y <= x

RECURSIVE Depth(_)
Depth(n) ==
    1 + Max({0} \cup {Depth(Children(n)[i]) : i \in DOMAIN Children(n)})

\* The child lists offered to a constructor: empty, or the current tree
\* alone.
ChildLists ==
    {<<>>}
    \cup (IF /\ node # None
             /\ IsComponentValue(ValueOf(node))
             /\ Depth(ValueOf(node)) < MaxDepth
          THEN {<<ValueOf(node)>>}
          ELSE {})

\* The argument lists offered to FunctionBlock: also the current tree
\* after a filler.
ArgumentLists ==
    ChildLists
    \cup {<<Filler(f)>> \o c : f \in FillerValues, c \in ChildLists \ {<<>>}}

\* ------------------------------------------------------------ actions

\* The record of the last call: its name, its arguments, the exception it
\* raised ("" for none), the text or the boolean it returned.
Call(name, args, exc, out, val) ==
    [call |-> name, args |-> args, exc |-> exc, out |-> out, val |-> val]

\* After a constructor call the new object is the current tree; when
\* __init__ raises there is no object.
Bound(c) == IF c.exc = "" THEN Some(c.obj) ELSE None

\* The record of a constructor call.
Constructed(name, args, c) == Call(name, args, c.exc, <<>>, FALSE)

Init ==
    /\ node = None
    /\ ret = Call("", <<>>, "", <<>>, FALSE)

NewParseError ==
    /\ node = None
    /\ \E p \in Positions, kind \in Kinds, message \in Messages :
            /\ node' = Bound(
                  ParseError(p[1], p[2], kind, message))
            /\ ret' = Constructed(
                  "ParseError", [kind |-> kind],
                  ParseError(p[1], p[2], kind, message))

NewComment ==
    /\ node = None
    /\ \E p \in Positions, value \in Texts :
            /\ node' = Bound(
                  Comment(p[1], p[2], value))
            /\ ret' = Constructed(
                  "Comment", [value |-> value],
                  Comment(p[1], p[2], value))

NewWhitespaceToken ==
    /\ node = None
    /\ \E p \in Positions, value \in {<<" ">>, <<"\n">>} :
            /\ node' = Bound(
                  WhitespaceToken(p[1], p[2], value))
            /\ ret' = Constructed(
                  "WhitespaceToken", [value |-> value],
                  WhitespaceToken(p[1], p[2], value))

NewLiteralToken ==
    /\ node = None
    /\ \E p \in Positions, value \in LiteralValues :
            /\ node' = Bound(
                  LiteralToken(p[1], p[2], value))
            /\ ret' = Constructed(
                  "LiteralToken", [value |-> value],
                  LiteralToken(p[1], p[2], value))

NewIdentToken ==
    /\ node = None
    /\ \E p \in Positions, value \in IdentValues :
            /\ node' = Bound(
                  IdentToken(p[1], p[2], value))
            /\ ret' = Constructed(
                  "IdentToken", [value |-> value],
                  IdentToken(p[1], p[2], value))

NewAtKeywordToken ==
    /\ node = None
    /\ \E p \in Positions, value \in AtKeywords :
            /\ node' = Bound(
                  AtKeywordToken(p[1], p[2], value))
            /\ ret' = Constructed(
                  "AtKeywordToken", [value |-> value],
                  AtKeywordToken(p[1], p[2], value))

NewHashToken ==
    /\ node = None
    /\ \E p \in Positions, value \in {<<"r", "e", "d">>, <<"1", "a">>} :
            /\ node' = Bound(
                  HashToken(p[1], p[2], value, Head(value) \in IdentStartChars))
            /\ ret' = Constructed(
                  "HashToken", [value |-> value],
                  HashToken(p[1], p[2], value, Head(value) \in IdentStartChars))

NewStringToken ==
    /\ node = None
    /\ \E p \in Positions, value \in StringValues,
       representation \in StringRepresentations :
            /\ node' = Bound(
                  StringToken(p[1], p[2], value, representation))
            /\ ret' = Constructed(
                  "StringToken", [value |-> value],
                  StringToken(p[1], p[2], value, representation))

NewURLToken ==
    /\ node = None
    /\ \E p \in Positions, value \in StringValues,
       representation \in UrlRepresentations :
            /\ node' = Bound(
                  URLToken(p[1], p[2], value, representation))
            /\ ret' = Constructed(
                  "URLToken", [value |-> value],
                  URLToken(p[1], p[2], value, representation))

NewNumberToken ==
    /\ node = None
    /\ \E p \in Positions, n \in Numerics :
            /\ node' = Bound(
                  NumberToken(p[1], p[2], n[1], n[2], n[3]))
            /\ ret' = Constructed(
                  "NumberToken", [value |-> n[1], int_value |-> n[2]],
                  NumberToken(p[1], p[2], n[1], n[2], n[3]))

NewPercentageToken ==
    /\ node = None
    /\ \E p \in Positions, n \in Numerics :
            /\ node' = Bound(
                  PercentageToken(p[1], p[2], n[1], n[2], n[3]))
            /\ ret' = Constructed(
                  "PercentageToken", [value |-> n[1], int_value |-> n[2]],
                  PercentageToken(p[1], p[2], n[1], n[2], n[3]))

NewDimensionToken ==
    /\ node = None
    /\ \E p \in Positions, n \in DimensionNumerics, unit \in Units :
            /\ node' = Bound(
                  DimensionToken(p[1], p[2], n[1], n[2], n[3], unit))
            /\ ret' = Constructed(
                  "DimensionToken", [value |-> n[1], int_value |-> n[2], unit |-> unit],
                  DimensionToken(p[1], p[2], n[1], n[2], n[3], unit))

NewParenthesesBlock ==
    \E p \in Positions, content \in ChildLists :
        /\ node' = Bound(
              ParenthesesBlock(p[1], p[2], content))
        /\ ret' = Constructed(
              "ParenthesesBlock", [content |-> content],
              ParenthesesBlock(p[1], p[2], content))

NewSquareBracketsBlock ==
    \E p \in Positions, content \in ChildLists :
        /\ node' = Bound(
              SquareBracketsBlock(p[1], p[2], content))
        /\ ret' = Constructed(
              "SquareBracketsBlock", [content |-> content],
              SquareBracketsBlock(p[1], p[2], content))

NewCurlyBracketsBlock ==
    \E p \in Positions, content \in ChildLists :
        /\ node' = Bound(
              CurlyBracketsBlock(p[1], p[2], content))
        /\ ret' = Constructed(
              "CurlyBracketsBlock", [content |-> content],
              CurlyBracketsBlock(p[1], p[2], content))

NewFunctionBlock ==
    \E p \in Positions, name \in FunctionNames, arguments \in ArgumentLists :
        /\ node' = Bound(
              FunctionBlock(p[1], p[2], name, arguments))
        /\ ret' = Constructed(
              "FunctionBlock", [name |-> name],
              FunctionBlock(p[1], p[2], name, arguments))

\* The declaration parser passes the lowered name it has computed.
NewDeclaration ==
    \E p \in Positions, name \in {<<"c", "o", "l", "o", "r">>},
       value \in ChildLists, important \in BOOLEAN :
        /\ node' = Bound(
              Declaration(p[1], p[2], name, LowerOrSame(name), value, important))
        /\ ret' = Constructed(
              "Declaration", [name |-> name],
              Declaration(p[1], p[2], name, LowerOrSame(name), value, important))

NewQualifiedRule ==
    \E p \in Positions, prelude \in ChildLists, content \in ChildLists :
        /\ node' = Bound(
              QualifiedRule(p[1], p[2], prelude, content))
        /\ ret' = Constructed(
              "QualifiedRule", [prelude |-> prelude],
              QualifiedRule(p[1], p[2], prelude, content))

\* The rule parser passes the lower_value of the at-keyword token.
NewAtRule ==
    \E p \in Positions, at_keyword \in RuleKeywords, prelude \in ChildLists,
       content \in {None} \cup {Some(c) : c \in ChildLists} :
        /\ node' = Bound(
              AtRule(p[1], p[2], at_keyword, LowerOrSame(at_keyword), prelude, content))
        /\ ret' = Constructed(
              "AtRule", [at_keyword |-> at_keyword],
              AtRule(p[1], p[2], at_keyword, LowerOrSame(at_keyword), prelude, content))

\* The current tree is dropped; a token is constructed when no tree is
\* at hand, a block or a rule around the tree at hand.
Discard ==
    /\ node # None
    /\ node' = None
    /\ ret' = Call("", <<>>, "", <<>>, FALSE)

\* A serialize() whose walk down the last arguments of a function block
\* takes the last argument off the list it looks at.
Mutant_Serialize ==
    /\ node # None
    /\ ret' = Call("serialize", <<>>, Node_serialize(ValueOf(node)).exc,
                   Node_serialize(ValueOf(node)).out, FALSE)
    /\ node' = IF /\ ValueOf(node).type = "function"
                  /\ ValueOf(node).arguments # <<>>
               THEN <<[ValueOf(node) EXCEPT
                          !.arguments = SubSeq(@, 1, Len(@) - 1)]>>
               ELSE node

\* node.serialize()
Serialize ==
    /\ node # None
    /\ ret' = Call("serialize", <<>>, Node_serialize(ValueOf(node)).exc,
                   Node_serialize(ValueOf(node)).out, FALSE)
    /\ UNCHANGED node

\* repr(node)
Repr ==
    /\ node # None
    /\ ret' = Call("repr", <<>>, Node_repr(ValueOf(node)).exc,
                   Node_repr(ValueOf(node)).out, FALSE)
    /\ UNCHANGED node

\* The operands a literal token is compared with.
Operands ==
    {PyStr(s) : s \in LiteralValues \cup {<<>>}}
    \cup {PySelf}
    \cup {PyNode(Filler(f)) : f \in FillerValues}

\* node == other
CompareEq ==
    /\ node # None
    /\ ValueOf(node).type = "literal"
    /\ \E other \in Operands :
        ret' = Call("==", other, "", <<>>, LiteralToken_eq(ValueOf(node), other))
    /\ UNCHANGED node

\* node != other
CompareNe ==
    /\ node # None
    /\ ValueOf(node).type = "literal"
    /\ \E other \in Operands :
        ret' = Call("!=", other, "", <<>>, LiteralToken_ne(ValueOf(node), other))
    /\ UNCHANGED node

\* s == node
CompareReflectedEq ==
    /\ node # None
    /\ ValueOf(node).type = "literal"
    /\ \E s \in LiteralValues \cup {<<>>} :
        ret' = Call("str ==", PyStr(s), "", <<>>, Reflected_eq(s, ValueOf(node)))
    /\ UNCHANGED node

\* s != node
CompareReflectedNe ==
    /\ node # None
    /\ ValueOf(node).type = "literal"
    /\ \E s \in LiteralValues \cup {<<>>} :
        ret' = Call("str !=", PyStr(s), "", <<>>, Reflected_ne(s, ValueOf(node)))
    /\ UNCHANGED node

Next ==
    \/ NewParseError
    \/ NewComment
    \/ NewWhitespaceToken
    \/ NewLiteralToken
    \/ NewIdentToken
    \/ NewAtKeywordToken
    \/ NewHashToken
    \/ NewStringToken
    \/ NewURLToken
    \/ NewNumberToken
    \/ NewPercentageToken
    \/ NewDimensionToken
    \/ NewParenthesesBlock
    \/ NewSquareBracketsBlock
    \/ NewCurlyBracketsBlock
    \/ NewFunctionBlock
    \/ NewDeclaration
    \/ NewQualifiedRule
    \/ NewAtRule
    \/ Discard
    \/ Serialize
    \/ Repr
    \/ CompareEq
    \/ CompareNe
    \/ CompareReflectedEq
    \/ CompareReflectedNe

Spec == Init /\ [][Next]_vars

\* ------------------------------------------- tokenizer (escape decoding)

HexChars == <<"0", "1", "2", "3", "4", "5", "6", "7", "8", "9",
              "a", "b", "c", "d", "e", "f">>

IsHexDigit(c) == LowerChar(c) \in Range(HexChars)

HexDigitValue(c) == IndexOf(HexChars, LowerChar(c)) - 1

RECURSIVE HexValue(_)
\* The number a run of hexadecimal digits denotes.
HexValue(digits) ==
    IF digits = <<>> THEN 0
    ELSE 16 * HexValue(SubSeq(digits, 1, Len(digits) - 1))
         + HexDigitValue(digits[Len(digits)])

\* The character of a code point: the ASCII letters and digits and the
\* newline; any other code point is not told apart here.
CodePointChar(n) ==
    IF n >= 65 /\ n <= 90 THEN UpperChars[n - 64]
    ELSE IF n >= 97 /\ n <= 122 THEN LowerChars[n - 96]
    ELSE IF n >= 48 /\ n <= 57 THEN DigitChars[n - 47]
    ELSE IF n = 10 THEN "\n"
    ELSE "U+FFFD"

\* The length of the run of hexadecimal digits of an escape that starts
\* at text[2]: one to six digits.
HexRunLength(text) ==
    CHOOSE n \in 1..6 :
        /\ n + 1 <= Len(text)
        /\ \A j \in 2..(n + 1) : IsHexDigit(text[j])
        /\ n = 6 \/ n + 2 > Len(text) \/ ~IsHexDigit(text[n + 2])

RECURSIVE DecodeName(_)
\* The name a text of name characters and escapes is tokenized to: a
\* backslash followed by one to six hexadecimal digits and an optional
\* single whitespace is the character of that code point; a backslash
\* followed by any other character is that character.
DecodeName(text) ==
    IF text = <<>> THEN <<>>
    ELSE IF Head(text) = "\\" /\ Len(text) >= 2
    THEN IF IsHexDigit(text[2])
         THEN LET n == HexRunLength(text)
                  skip == IF /\ n + 2 <= Len(text)
                             /\ text[n + 2] \in {" ", "\n", "\t"}
                          THEN 1 ELSE 0
              IN  <<CodePointChar(HexValue(SubSeq(text, 2, n + 1)))>>
                  \o DecodeName(SubSeq(text, n + 2 + skip, Len(text)))
         ELSE <<text[2]>> \o DecodeName(SubSeq(text, 3, Len(text)))
    ELSE <<Head(text)>> \o DecodeName(Tail(text))

\* ---------------------------------------------------- shared by the claims

\* The current tree is a node of one of the types and the last call was
\* its serialize().
Serialized(types) ==
    /\ node # None
    /\ ValueOf(node).type \in types
    /\ ret.call = "serialize"

\* The last call constructed the current tree, a node of one of the types.
JustBuilt(types) ==
    /\ node # None
    /\ ValueOf(node).type \in types
    /\ ret.call \in {"ParseError", "IdentToken", "AtKeywordToken",
                     "NumberToken", "PercentageToken", "DimensionToken",
                     "FunctionBlock"}
    /\ ret.exc = ""

Last(s) == s[Len(s)]

\* ------------------------------------------------------------------ C1

\* The kinds the error table of the specification gives a text to.
StrayCloserKinds == {<<")">>, <<"]">>, <<"}">>}

SerializableKinds ==
    {BadString, BadUrl, EofInString, EofInUrl} \cup StrayCloserKinds

\* The texts the table gives.
ErrorTexts == {BadStringText, BadUrlText, <<>>} \cup StrayCloserKinds

\* C1: serializing an error node writes '"[bad string]' and a newline for
\* kind bad-string, 'url([bad url])' for bad-url, the closer for the kinds
\* ')', ']' and '}', nothing for eof-in-string and eof-in-url; and no other
\* kind (the empty string, a longer substring of ')]}') gets one of these
\* texts or is written as a stray closer.
C1_ErrorTextsOnlyForTheirKinds ==
    Serialized({"error"}) =>
        LET kind == ValueOf(node).kind
        IN  /\ kind = BadString => ret.exc = "" /\ ret.out = BadStringText
            /\ kind = BadUrl => ret.exc = "" /\ ret.out = BadUrlText
            /\ kind \in StrayCloserKinds => ret.exc = "" /\ ret.out = kind
            /\ kind \in {EofInString, EofInUrl} =>
                   ret.exc = "" /\ ret.out = <<>>
            /\ kind \notin SerializableKinds =>
                   ~(ret.exc = "" /\ ret.out \in ErrorTexts \cup {kind})

\* ------------------------------------------------------------------ C2

\* The kinds of the error taxonomy of the specification.
TaxonomyKinds == SerializableKinds \cup {EmptyKind, ExtraInputKind, InvalidKind}

RECURSIVE ErrorKindsIn(_)
\* The kinds of the error nodes of a tree, in document order.
ErrorKindsIn(n) ==
    (IF n.type = "error" THEN <<n.kind>> ELSE <<>>)
    \o Concat([i \in DOMAIN Children(n) |-> ErrorKindsIn(Children(n)[i])])

\* The error nodes of tree n have the kinds that occur among component
\* values: the ones the error table gives a text to.
ComponentValueErrors(n) == Range(ErrorKindsIn(n)) \subseteq SerializableKinds

\* C2: errors are values, never thrown: serialize() of an error node of
\* any kind of the taxonomy, and of any tree that holds such error nodes,
\* returns a string and raises nothing.
C2_SerializeNeverRaises ==
    (/\ node # None
     /\ ret.call = "serialize"
     /\ ErrorKindsIn(ValueOf(node)) # <<>>
     /\ Range(ErrorKindsIn(ValueOf(node))) \subseteq TaxonomyKinds)
    => ret.exc = ""

\* ------------------------------------------------------------------ C3

RECURSIVE ChainReachesEofInString(_)
\* Following the last arguments through nested function blocks only, the
\* chain from function block f reaches an eof-in-string error.
ChainReachesEofInString(f) ==
    /\ f.type = "function"
    /\ f.arguments # <<>>
    /\ \/ /\ Last(f.arguments).type = "error"
          /\ Last(f.arguments).kind = EofInString
       \/ ChainReachesEofInString(Last(f.arguments))

\* C3: a function block whose arguments serialize is written as its name,
\* '(' and the serialized arguments, followed by one ')' unless the
\* arguments are non-empty and the chain of last arguments through nested
\* function blocks reaches an eof-in-string error.
C3_ClosingParenthesisRule ==
    (/\ Serialized({"function"})
     /\ serializer_serialize_to(ValueOf(node).arguments).exc = "")
    => /\ ret.exc = ""
       /\ ret.out =
            serialize_identifier(ValueOf(node).name) \o <<"(">>
            \o serializer_serialize_to(ValueOf(node).arguments).out
            \o (IF ChainReachesEofInString(ValueOf(node))
                THEN <<>> ELSE <<")">>)

\* ------------------------------------------------------------------ C4

\* The units the specification wants escaped: e, E, or starting with e-
\* or E-.
ExponentLike(unit) ==
    /\ unit # <<>>
    /\ unit[1] \in {"e", "E"}
    /\ Len(unit) = 1 \/ unit[2] = "-"

\* text starts with a hexadecimal escape (a backslash, hexadecimal digits,
\* a space) of the letter c in either case, and goes on with rest.
IsEscapeOfLetterThen(text, c, rest) ==
    /\ Len(text) >= 4
    /\ text[1] = "\\"
    /\ IsHexDigit(text[2]) /\ IsHexDigit(text[3])
    /\ text[4] = " "
    /\ LowerChar(CodePointChar(HexValue(SubSeq(text, 2, 3)))) = LowerChar(c)
    /\ SubSeq(text, 5, Len(text)) = rest

\* What a serialized dimension holds after its representation.
WrittenUnit ==
    SubSeq(ret.out, Len(ValueOf(node).representation) + 1, Len(ret.out))

\* C4: a dimension is written as its representation followed by its unit;
\* the unit is written escaped (a hexadecimal escape in place of its first
\* character, then the name serialization of the rest) exactly when it is
\* e, E, or starts with e- or E-, and with the identifier serialization,
\* with no forced escape, otherwise.
C4_UnitEscapedExactlyWhenExponentLike ==
    Serialized({"dimension"}) =>
        LET unit == ValueOf(node).unit
        IN  /\ ret.exc = ""
            /\ StartsWith(ret.out, ValueOf(node).representation)
            /\ ExponentLike(unit) =>
                   IsEscapeOfLetterThen(WrittenUnit, unit[1],
                                        serialize_name(Rest(unit)))
            /\ ~ExponentLike(unit) =>
                   WrittenUnit = serialize_identifier(unit)
            /\ (WrittenUnit # serialize_identifier(unit))
                   <=> ExponentLike(unit)

C4_Witness ==
    /\ Serialized({"dimension"})
    /\ ValueOf(node).unit = <<"E", "-", "x">>
    /\ ret.out = <<"1", "\\", "6", "5", " ", "-", "x">>

\* ------------------------------------------------------------------ C5

\* C5: serializing a dimension preserves the unit with its letter case:
\* the written unit text decodes to the unit itself, so that for the unit
\* E the escape denotes the upper-case letter.
C5_WrittenUnitDecodesToUnit ==
    Serialized({"dimension"}) =>
        /\ ret.exc = ""
        /\ DecodeName(WrittenUnit) = ValueOf(node).unit

\* ------------------------------------------------------------------ C6

\* The last call compared the current tree, a literal token.
Compared ==
    /\ node # None
    /\ ValueOf(node).type = "literal"
    /\ ret.call \in {"==", "!=", "str ==", "str !="}

\* C6: for a literal token L and a str s, L == s and s == L hold exactly
\* when L.value equals s, L != s and s != L are their negations, and
\* L == L is true.
C6_LiteralEqualsItsValue ==
    Compared =>
        LET L == ValueOf(node)
            other == ret.args
        IN  /\ ret.exc = ""
            /\ (other.py = "str" /\ ret.call \in {"==", "str =="})
                   => (ret.val <=> L.value = other.s)
            /\ (other.py = "str" /\ ret.call \in {"!=", "str !="})
                   => (ret.val <=> L.value # other.s)
            /\ (other.py = "self" /\ ret.call = "==") => ret.val
            /\ (other.py = "self" /\ ret.call = "!=") => ~ret.val

C6_Witness ==
    /\ Compared
    /\ ret.call = "str =="
    /\ ret.args = PyStr(<<";">>)
    /\ ValueOf(node).value = <<";">>
    /\ ret.val

\* ------------------------------------------------------------------ C7

RECURSIVE NodesOf(_)
\* The nodes of a tree, in document order.
NodesOf(n) ==
    <<n>> \o Concat([i \in DOMAIN Children(n) |-> NodesOf(Children(n)[i])])

\* The nodes of the current tree.
TreeNodes == IF node = None THEN <<>> ELSE NodesOf(ValueOf(node))

NumericTypes == {"number", "percentage", "dimension"}

\* The float, a fraction, equals the integer as a real number.
FloatEqualsInt(float, int) == float[1] = int * float[2]

AsciiLowercase(text) == [i \in DOMAIN text |-> LowerChar(text[i])]

\* The lowered field of a node equals the ASCII-lowercase of the cased one.
Lowered(n) ==
    /\ n.type \in {"ident", "at-keyword"} =>
           n.lower_value = AsciiLowercase(n.value)
    /\ n.type = "function" => n.lower_name = AsciiLowercase(n.name)
    /\ n.type = "dimension" => n.lower_unit = AsciiLowercase(n.unit)

\* C8: for every string given at construction to an ident token, an
\* at-keyword token, a function block or a dimension token, construction
\* succeeds and the lowered field is the ASCII-lowercase of the cased one.
C8_LoweredFieldIsAsciiLowercase ==
    /\ ret.call \in {"IdentToken", "AtKeywordToken", "FunctionBlock",
                     "DimensionToken"} => ret.exc = ""
    /\ \A n \in Range(TreeNodes) : Lowered(n)

\* ------------------------------------------------------------------ C9

\* C9: an at-rule of component values is written as '@', the at-keyword,
\* the prelude, and then ';' exactly when its content is None, and '{', the
\* content and '}' otherwise, also for an empty content.
C9_AtRuleEndsWithSemicolonIffNoContent ==
    LET rule == ValueOf(node)
        head == <<"@">> \o serialize_identifier(rule.at_keyword)
                \o serializer_serialize_to(rule.prelude).out
    IN  (Serialized({"at-rule"}) /\ ComponentValueErrors(rule))
        => /\ ret.exc = ""
           /\ rule.content = None => ret.out = head \o <<";">>
           /\ rule.content # None =>
                  ret.out = head \o <<"{">>
                      \o serializer_serialize_to(ValueOf(rule.content)).out
                      \o <<"}">>
           /\ Last(ret.out) = ";" <=> rule.content = None

\* ----------------------------------------------------------------- C10

\* Other numeric values a token could carry with the same representation.
OtherFloats == {<<1, 1>>, <<3, 2>>, <<7, 1>>}

OtherInts == {None, Some(1), Some(7)}

\* The current tree with its value (and int_value) replaced.
WithValue(value) == [ValueOf(node) EXCEPT !.value = value]

WithNumber(value, int_value) ==
    [ValueOf(node) EXCEPT !.value = value, !.int_value = int_value,
                          !.is_integer = (int_value # None)]

\* C10: a token with a representation is written from it verbatim: a
\* string, url or number token as its representation, a percentage as its
\* representation and '%', a dimension starting with its representation;
\* the value and int_value fields have no part in the text.
C10_RepresentationVerbatim ==
    /\ Serialized({"string", "url", "number"}) =>
           /\ ret.exc = ""
           /\ ret.out = ValueOf(node).representation
    /\ Serialized({"percentage"}) =>
           /\ ret.exc = ""
           /\ ret.out = ValueOf(node).representation \o <<"%">>
    /\ Serialized({"dimension"}) =>
           /\ ret.exc = ""
           /\ StartsWith(ret.out, ValueOf(node).representation)
    /\ Serialized({"string", "url"}) =>
           \A value \in Texts :
               Node_serialize(WithValue(value)).out = ret.out
    /\ Serialized(NumericTypes) =>
           \A value \in OtherFloats, int_value \in OtherInts :
               Node_serialize(WithNumber(value, int_value)).out = ret.out

C10_Witness ==
    /\ Serialized({"number"})
    /\ ValueOf(node).representation = <<"+", "1">>
    /\ ValueOf(node).int_value = Some(1)
    /\ ret.out = <<"+", "1">>

\* ----------------------------------------------------------------- C11

\* The calls that are made on a constructed tree.
MethodCalls == {"serialize", "repr", "==", "!=", "str ==", "str !="}

\* C11: nodes are never mutated after construction: a serialize(), a
\* comparison or a repr() leaves every attribute of every node of the tree
\* as it was, child lists with their order and members included, and
\* serializing the tree again gives what the last serialize() gave.
C11_OperationsLeaveTreeUnchanged ==
    /\ [][ret'.call \in MethodCalls => node' = node]_vars
    /\ [](ret.call = "serialize" =>
             /\ Node_serialize(ValueOf(node)).exc = ret.exc
             /\ Node_serialize(ValueOf(node)).out = ret.out)

C11_Witness ==
    /\ node # None
    /\ ValueOf(node).type = "function"
    /\ Len(ValueOf(node).arguments) = 2
    /\ ret.call = "repr"
    /\ ret.out = <<"<", "FunctionBlock", " ", "R", "g", "b",
                   "(", " ", Ellipsis, " ", ")", ">">>

\* ----------------------------------------------------------------- C12

\* The last argument of function block f is a function block that has no
\* arguments, as in a(b()).
EndsWithEmptyFunction(f) ==
    /\ f.arguments # <<>>
    /\ Last(f.arguments).type = "function"
    /\ Last(f.arguments).arguments = <<>>

\* C12: serializing a function block ends normally: the walk down the
\* last arguments never takes the last element of an empty arguments list,
\* and a function block whose last argument is a function block without
\* arguments is written, with ')' last, when its arguments serialize.
C12_WalkNeverIndexesEmptyArguments ==
    Serialized({"function"}) =>
        /\ ret.exc # "IndexError"
        /\ (/\ EndsWithEmptyFunction(ValueOf(node))
            /\ serializer_serialize_to(ValueOf(node).arguments).exc = "")
           => /\ ret.exc = ""
              /\ Last(ret.out) = ")"

\* ----------------------------------------------------------------- C13

\* The delimiters of the three kinds of blocks.
Opening(type) ==
    CASE type = "() block" -> "(" [] type = "[] block" -> "["
      [] type = "{} block" -> "{"

Closing(type) ==
    CASE type = "() block" -> ")" [] type = "[] block" -> "]"
      [] type = "{} block" -> "}"

BlockTypes == {"() block", "[] block", "{} block"}

\* C13: a () block, [] block or {} block is written as its opening
\* delimiter, its content items in list order and its matching closing
\* delimiter, once each, for every content list of component values; a
\* qualified rule as its prelude, '{', its content and '}'.
C13_BlocksWriteMatchingDelimiters ==
    /\ (Serialized(BlockTypes) /\ ComponentValueErrors(ValueOf(node))) =>
           /\ ret.exc = ""
           /\ ret.out =
                  <<Opening(ValueOf(node).type)>>
                  \o serializer_serialize_to(ValueOf(node).content).out
                  \o <<Closing(ValueOf(node).type)>>
    /\ (/\ Serialized({"qualified-rule"})
        /\ ComponentValueErrors(ValueOf(node))) =>
           /\ ret.exc = ""
           /\ ret.out =
                  serializer_serialize_to(ValueOf(node).prelude).out
                  \o <<"{">>
                  \o serializer_serialize_to(ValueOf(node).content).out
                  \o <<"}">>

====
